---- MODULE Spec2Model ----
(***************************************************************************)
(* A model of the shop manager: the domain entities and their validation  *)
(* (models.py), the recursive sort (models.py), the SQLite persistence     *)
(* gateway and the CSV/JSON bulk transfer (db.py) and the handlers of the  *)
(* Tkinter shell (gui.py).                                                 *)
(*                                                                         *)
(* Text is a sequence of one-character strings, so that the regular        *)
(* expressions, the number parsing of the bulk import and the ordering of  *)
(* stored text are computed on the characters.  A stored price is the      *)
(* decimal, in thousandths, that its float prints as; subtotals and totals *)
(* are computed in binary64, each operation rounded to the nearest float.  *)
(***************************************************************************)
EXTENDS Integers, Sequences, FiniteSets, TLC

VARIABLES
    order,      \* models.Order under construction: [items |-> sequence of OrderItem]
    sort_in,    \* the list handed to quicksort_orders
    sort_how,   \* the key App.sort_orders selected: "date" or "total"
    sort_out,   \* what quicksort_orders returned
    db,         \* the SQLite store: the four tables, each a sequence of rows in rowid order
    target,     \* a second store, the one a round trip imports into
    open_conns, \* the number of connections that are open now
    peak_conns, \* the most connections open at once during the last operation
    app,        \* the interactive shell: "stopped" or "running"
    cached,     \* App._cached_orders: <<>> when unset, or <<the list>>
    customer_tree, \* the rows of App.customer_tree
    orders_tree,   \* the rows of App.orders_tree
    shown,      \* the message boxes the last handler showed, in order
    last,       \* the last operation: [op |-> its name, arg |-> its input]
    raised,     \* the exception the last operation raised to its caller, or NoError
    result      \* what the last operation returned, wrote or showed

\* the state of the interactive shell
gui == <<app, cached, customer_tree, orders_tree, shown>>

vars ==
    <<order, sort_in, sort_how, sort_out, db, target, open_conns, peak_conns,
      gui, last, raised, result>>

NoError == "none"

-----------------------------------------------------------------------------
(* Sequences and text *)

Range(s) == {s[i] : i \in 1..Len(s)}

RECURSIVE SumSeq(_)
SumSeq(s) == IF s = <<>> THEN 0 ELSE s[1] + SumSeq(Tail(s))

Digit == {"0", "1", "2", "3", "4", "5", "6", "7", "8", "9"}

Alpha ==
    {"a", "b", "c", "d", "e", "f", "g", "h", "i", "j", "k", "l", "m",
     "n", "o", "p", "q", "r", "s", "t", "u", "v", "w", "x", "y", "z",
     "A", "B", "C", "D", "E", "F", "G", "H", "I", "J", "K", "L", "M",
     "N", "O", "P", "Q", "R", "S", "T", "U", "V", "W", "X", "Y", "Z"}

\* The printable ASCII characters in code order, from the space (code 32) on
\* (the grave accent, code 96, is spelled out: it cannot stand in a string here).
Ascii ==
    <<
      " ", "!", "\"", "#", "$", "%", "&", "'", "(", ")", "*", "+",
      ",", "-", ".", "/", "0", "1", "2", "3", "4", "5", "6", "7",
      "8", "9", ":", ";", "<", "=", ">", "?", "@", "A", "B", "C",
      "D", "E", "F", "G", "H", "I", "J", "K", "L", "M", "N", "O",
      "P", "Q", "R", "S", "T", "U", "V", "W", "X", "Y", "Z", "[",
      "\\", "]", "^", "_", "grave", "a", "b", "c", "d", "e", "f", "g",
      "h", "i", "j", "k", "l", "m", "n", "o", "p", "q", "r", "s",
      "t", "u", "v", "w", "x", "y", "z", "{", "|", "}", "~"
    >>

CharCode(c) == 31 + (CHOOSE i \in 1..Len(Ascii) : Ascii[i] = c)

\* memcmp order of two texts, the order of SQLite's BINARY collation
TextLess(a, b) ==
    \/ \E k \in 1..Len(a) :
           /\ k <= Len(b)
           /\ \A m \in 1..(k - 1) : a[m] = b[m]
           /\ CharCode(a[k]) < CharCode(b[k])
    \/ /\ Len(a) < Len(b)
       /\ \A m \in 1..Len(a) : a[m] = b[m]

DigitChars == <<"0", "1", "2", "3", "4", "5", "6", "7", "8", "9">>

DigitVal(c) == (CHOOSE i \in 1..10 : DigitChars[i] = c) - 1

\* str(n) for an integer n
RECURSIVE FormatNat(_)
FormatNat(n) ==
    IF n < 10 THEN <<DigitChars[n + 1]>>
    ELSE Append(FormatNat(n \div 10), DigitChars[(n % 10) + 1])

FormatInt(n) == IF n < 0 THEN <<"-">> \o FormatNat(0 - n) ELSE FormatNat(n)

\* the value of a text of decimal digits
RECURSIVE ParseNat(_)
ParseNat(t) ==
    IF t = <<>> THEN 0
    ELSE 10 * ParseNat(SubSeq(t, 1, Len(t) - 1)) + DigitVal(t[Len(t)])

AllIn(s, lo, hi, cls) == \A k \in lo..hi : s[k] \in cls

\* Python's "$": the end of the text, or just before a newline that ends it.
DollarStrip(s) ==
    IF Len(s) > 0 /\ s[Len(s)] = "\n" THEN SubSeq(s, 1, Len(s) - 1) ELSE s

\* [A-Za-z0-9._%+-]
EmailLocalClass == Alpha \cup Digit \cup {".", "_", "%", "+", "-"}

\* [A-Za-z0-9.-]
EmailDomainClass == Alpha \cup Digit \cup {".", "-"}

\* [A-Za-z0-9._%+-]+@[A-Za-z0-9.-]+\.[A-Za-z]{2,} over the whole of s
EmailBody(s) ==
    \E i \in 1..Len(s), j \in 1..Len(s) :
        /\ s[i] = "@"
        /\ i >= 2
        /\ AllIn(s, 1, i - 1, EmailLocalClass)
        /\ s[j] = "."
        /\ j >= i + 2
        /\ AllIn(s, i + 1, j - 1, EmailDomainClass)
        /\ Len(s) - j >= 2
        /\ AllIn(s, j + 1, Len(s), Alpha)

EMAIL_RE(s) == EmailBody(s) \/ EmailBody(DollarStrip(s))

\* [0-9\s\-()]
PhoneClass == Digit \cup {" ", "\t", "\n", "-", "(", ")"}

\* \+?[0-9\s\-()]{7,} over the whole of s
PhoneBody(s) ==
    LET rest == IF Len(s) > 0 /\ s[1] = "+" THEN Tail(s) ELSE s
    IN  Len(rest) >= 7 /\ AllIn(rest, 1, Len(rest), PhoneClass)

PHONE_RE(s) == PhoneBody(s) \/ PhoneBody(DollarStrip(s))

-----------------------------------------------------------------------------
(* models.py: entities and their validation *)

\* Customer.__post_init__: the exception constructing the customer raises
CustomerPostInit(email, phone) ==
    IF ~EMAIL_RE(email) THEN "ValidationError"
    ELSE IF ~PHONE_RE(phone) THEN "ValidationError"
    ELSE NoError

\* Product.__post_init__
ProductPostInit(price) == IF price < 0 THEN "ValidationError" ELSE NoError

\* A float is a binary64 value that lies within a fraction of a thousandth of
\* a decimal: [t, d] is (t + d * 2^e) / 1000, where t is the decimal in
\* thousandths, e = UlpExp is the exponent of the value's last mantissa bit
\* and d counts units of 2^e / 1000.  Amounts are not negative.
Zero == [t |-> 0, d |-> 0]

RECURSIVE Pow2Mod(_, _)
Pow2Mod(k, m) == IF k = 0 THEN 1 % m ELSE (2 * Pow2Mod(k - 1, m)) % m

\* the E with 2^E <= t/1000 < 2^(E+1), for t > 0
Exp2(t) ==
    CHOOSE E \in (0 - 10)..20 :
        IF E >= 0 THEN 1000 * 2^E <= t /\ t < 1000 * 2^(E + 1)
        ELSE 1000 <= t * 2^(0 - E) /\ t * 2^(0 - E) < 2000

\* t/1000 is a power of two
OnBoundary(t) ==
    IF Exp2(t) >= 0 THEN t = 1000 * 2^Exp2(t) ELSE t * 2^(0 - Exp2(t)) = 1000

UlpExp(f) == Exp2(f.t) - 52 - (IF f.d < 0 /\ OnBoundary(f.t) THEN 1 ELSE 0)

\* The binary64 nearest to (t + num * 2^eu) / 1000, a tie going to the even
\* mantissa: IEEE 754 round-to-nearest, which every float operation ends with.
RoundNearest(t, num, eu) ==
    IF t = 0 THEN Zero
    ELSE LET er == Exp2(t) - 52 - (IF num < 0 /\ OnBoundary(t) THEN 1 ELSE 0)
             sh == IF er >= eu THEN er - eu ELSE 0
             n2 == IF er >= eu THEN num ELSE num * 2^(eu - er)
             base == (1000 - (((t % 1000) * Pow2Mod(0 - er, 1000)) % 1000)) % 1000
             fx == n2 \div (2^sh)
             lo == fx - ((fx - base) % 1000)
             hi == lo + 1000
             R == ((t % 2000) * Pow2Mod(0 - er, 2000)) % 2000
             d == IF 2 * n2 < (lo + hi) * 2^sh THEN lo
                  ELSE IF 2 * n2 > (lo + hi) * 2^sh THEN hi
                  ELSE IF (R + lo) % 2000 = 0 THEN lo ELSE hi
         IN  [t |-> t, d |-> d]

\* the float a decimal literal or float(text) denotes
FromDecimal(t) == IF t = 0 THEN Zero ELSE RoundNearest(t, 0, Exp2(t) - 52)

\* q * x for an int q >= 0
FloatTimes(q, x) ==
    IF q = 0 \/ x = Zero THEN Zero ELSE RoundNearest(q * x.t, q * x.d, UlpExp(x))

\* x + y
FloatPlus(x, y) ==
    IF x = Zero THEN y
    ELSE IF y = Zero THEN x
    ELSE LET ex == UlpExp(x)
             ey == UlpExp(y)
             emin == IF ex < ey THEN ex ELSE ey
         IN  RoundNearest(x.t + y.t, x.d * 2^(ex - emin) + y.d * 2^(ey - emin), emin)

\* round(x, 2): the float nearest to the hundredth nearest to the value x
\* has, a tie of the value itself going to the even hundredth
Round2(x) ==
    LET q == x.t \div 10
        r == x.t % 10
        up == r > 5 \/ (r = 5 /\ (x.d > 0 \/ (x.d = 0 /\ q % 2 = 1)))
    IN  FromDecimal(10 * (IF up THEN q + 1 ELSE q))

\* OrderItem.subtotal; unit_price is held as the decimal, in thousandths,
\* that the float prints as
subtotal(item) == Round2(FloatTimes(item.quantity, FromDecimal(item.unit_price)))

\* sum(i.subtotal() for i in items): from 0, one addition after another
RECURSIVE FloatSum(_)
FloatSum(xs) ==
    IF xs = <<>> THEN Zero ELSE FloatPlus(FloatSum(SubSeq(xs, 1, Len(xs) - 1)), xs[Len(xs)])

\* Order.total
total(items) == Round2(FloatSum([i \in 1..Len(items) |-> subtotal(items[i])]))

\* The slip of comparing with < instead of <=.
add_item_AllowsZero(items, item) ==
    IF item.quantity < 0
    THEN [items |-> items, raised |-> "ValidationError"]
    ELSE [items |-> Append(items, item), raised |-> NoError]

\* Order.add_item
add_item(items, item) ==
    IF item.quantity <= 0
    THEN [items |-> items, raised |-> "ValidationError"]
    ELSE [items |-> Append(items, item), raised |-> NoError]

-----------------------------------------------------------------------------
(* models.py: quicksort_orders *)

\* The slip of keeping only the pivot in the middle part: its equals are lost.
RECURSIVE quicksort_PivotOnly(_, _)
quicksort_PivotOnly(orders, key) ==
    IF Len(orders) <= 1 THEN orders
    ELSE LET pivot == orders[(Len(orders) \div 2) + 1]
             pk == key[pivot]
             IsLess(o) == key[o] < pk
             IsMore(o) == key[o] > pk
         IN  quicksort_PivotOnly(SelectSeq(orders, IsLess), key)
                 \o <<pivot>>
                 \o quicksort_PivotOnly(SelectSeq(orders, IsMore), key)

\* The two-way partition around the middle element, with the pivot's equals
\* sent to the left part: sorted, and not stable.
RECURSIVE quicksort_TwoWay(_, _)
quicksort_TwoWay(orders, key) ==
    IF Len(orders) <= 1 THEN orders
    ELSE LET p == (Len(orders) \div 2) + 1
             pivot == orders[p]
             pk == key[pivot]
             rest == SubSeq(orders, 1, p - 1) \o SubSeq(orders, p + 1, Len(orders))
             IsLessEq(o) == key[o] <= pk
             IsMore(o) == key[o] > pk
         IN  quicksort_TwoWay(SelectSeq(rest, IsLessEq), key)
                 \o <<pivot>>
                 \o quicksort_TwoWay(SelectSeq(rest, IsMore), key)

\* quicksort_orders(orders, key): key is a function on the orders of the list
RECURSIVE quicksort_orders(_, _)
quicksort_orders(orders, key) ==
    IF Len(orders) <= 1 THEN orders
    ELSE LET pivot == orders[(Len(orders) \div 2) + 1]
             pk == key[pivot]
             IsLess(o) == key[o] < pk
             IsEqual(o) == key[o] = pk
             IsMore(o) == key[o] > pk
             left == SelectSeq(orders, IsLess)
             mid == SelectSeq(orders, IsEqual)
             right == SelectSeq(orders, IsMore)
         IN  quicksort_orders(left, key) \o mid \o quicksort_orders(right, key)

-----------------------------------------------------------------------------
(* datetime: an hour of 2024-01-01, naive (tz = <<>>) or with a UTC offset  *)
(* of whole hours (tz = <<h>>)                                              *)

DatePrefix == <<"2", "0", "2", "4", "-", "0", "1", "-", "0", "1">>

TwoDigits(n) == <<DigitChars[(n \div 10) + 1], DigitChars[(n % 10) + 1]>>

\* datetime.isoformat(): YYYY-MM-DDTHH:MM:SS, then +HH:MM when aware
isoformat(dt) ==
    DatePrefix \o <<"T">> \o TwoDigits(dt.hour) \o <<":", "0", "0", ":", "0", "0">>
        \o (IF dt.tz = <<>> THEN <<>>
            ELSE <<IF dt.tz[1] < 0 THEN "-" ELSE "+">>
                     \o TwoDigits(IF dt.tz[1] < 0 THEN 0 - dt.tz[1] ELSE dt.tz[1])
                     \o <<":", "0", "0">>)

\* datetime.fromisoformat on such a text (the separator is any character)
fromisoformat(t) ==
    [hour |-> ParseNat(SubSeq(t, 12, 13)),
     tz   |-> IF Len(t) > 19
              THEN <<(IF t[20] = "-" THEN 0 - 1 ELSE 1) * ParseNat(SubSeq(t, 21, 22))>>
              ELSE <<>>]

\* The instant a datetime denotes, in hours: what comparing two naive or two
\* aware datetimes compares.
Instant(dt) == IF dt.tz = <<>> THEN dt.hour ELSE dt.hour - dt.tz[1]

\* The keys of App.sort_orders: lambda o: o.created_at, lambda o: o.total().
\* A total is the float nearest to a number of hundredths, and two of them
\* compare as their hundredths do.
SortKey(how, orders) ==
    [o \in Range(orders) |->
        IF how = "date" THEN Instant(o.created_at) ELSE total(o.items).t]

-----------------------------------------------------------------------------
(* db.py: the connection and the SQL statements *)

\* A store is the record of its tables, each the sequence of its rows.
EmptyDb == [customers |-> <<>>, products |-> <<>>, orders |-> <<>>, order_items |-> <<>>]

\* a store file that holds no table yet: what sqlite3.connect makes of a path
\* where no file is
NoTables == <<>>

HasTable(d, table) == table \in DOMAIN d

\* sqlite3.connect: a new connection enforces no foreign key until told to
sqlite3_connect == [foreign_keys |-> FALSE]

\* the connection of init_db after its PRAGMA foreign_keys = ON
PragmaForeignKeysOn(con) == [con EXCEPT !.foreign_keys = TRUE]

Ids(table) == {table[i].id : i \in 1..Len(table)}

MaxOf(S) == CHOOSE m \in S : \A x \in S : x <= m

\* INTEGER PRIMARY KEY AUTOINCREMENT: no row is ever deleted, so the next
\* identifier is one more than the largest in the table
NextRowId(table) == IF table = <<>> THEN 1 ELSE MaxOf(Ids(table)) + 1

\* a statement's outcome: the tables as the connection now sees them
Done(d) == [db |-> d, raised |-> NoError]

Failed(d, e) == [db |-> d, raised |-> e]

\* The slip of declaring email without UNIQUE.
InsertCustomer_NoUnique(con, d, id, name, email, phone, city) ==
    IF id # <<>> /\ id[1] \in Ids(d.customers) THEN Failed(d, "IntegrityError")
    ELSE Done([d EXCEPT !.customers = Append(@,
             [id |-> IF id = <<>> THEN NextRowId(d.customers) ELSE id[1],
              name |-> name, email |-> email, phone |-> phone, city |-> city])])

\* INSERT INTO customers; id is <<>> (assigned by the store) or <<n>>
InsertCustomer(con, d, id, name, email, phone, city) ==
    IF id # <<>> /\ id[1] \in Ids(d.customers) THEN Failed(d, "IntegrityError")
    ELSE IF \E i \in 1..Len(d.customers) : d.customers[i].email = email
    THEN Failed(d, "IntegrityError")
    ELSE Done([d EXCEPT !.customers = Append(@,
             [id |-> IF id = <<>> THEN NextRowId(d.customers) ELSE id[1],
              name |-> name, email |-> email, phone |-> phone, city |-> city])])

\* INSERT INTO products
InsertProduct(con, d, id, name, price, sku) ==
    IF id # <<>> /\ id[1] \in Ids(d.products) THEN Failed(d, "IntegrityError")
    ELSE IF \E i \in 1..Len(d.products) : d.products[i].sku = sku
    THEN Failed(d, "IntegrityError")
    ELSE Done([d EXCEPT !.products = Append(@,
             [id |-> IF id = <<>> THEN NextRowId(d.products) ELSE id[1],
              name |-> name, price |-> price, sku |-> sku])])

\* INSERT INTO orders; the foreign key is checked only on a connection that
\* has foreign_keys on
InsertOrder(con, d, id, customer_id, created_at, status) ==
    IF id # <<>> /\ id[1] \in Ids(d.orders) THEN Failed(d, "IntegrityError")
    ELSE IF con.foreign_keys /\ customer_id \notin Ids(d.customers)
    THEN Failed(d, "IntegrityError")
    ELSE Done([d EXCEPT !.orders = Append(@,
             [id |-> IF id = <<>> THEN NextRowId(d.orders) ELSE id[1],
              customer_id |-> customer_id, created_at |-> created_at,
              status |-> status])])

\* INSERT INTO order_items; PRIMARY KEY(order_id, product_id)
InsertOrderItem(con, d, order_id, product_id, quantity, unit_price) ==
    IF \E i \in 1..Len(d.order_items) :
           /\ d.order_items[i].order_id = order_id
           /\ d.order_items[i].product_id = product_id
    THEN Failed(d, "IntegrityError")
    ELSE IF con.foreign_keys
            /\ (order_id \notin Ids(d.orders) \/ product_id \notin Ids(d.products))
    THEN Failed(d, "IntegrityError")
    ELSE Done([d EXCEPT !.order_items = Append(@,
             [order_id |-> order_id, product_id |-> product_id,
              quantity |-> quantity, unit_price |-> unit_price])])

\* The slip of releasing the connection only after the commit, with no finally.
connect_NoFinally(d, body) ==
    [db     |-> IF body.raised = NoError THEN body.db ELSE body.durable,
     raised |-> body.raised,
     ret    |-> body.ret,
     opened |-> 1,
     closed |-> IF body.raised = NoError THEN 1 ELSE 0,
     peak   |-> 1]

\* The slip of committing in the finally clause, whatever the body did.
connect_CommitAlways(d, body) ==
    [db     |-> body.db,
     raised |-> body.raised,
     ret    |-> body.ret,
     opened |-> 1,
     closed |-> 1,
     peak   |-> 1]

\* with connect(db_path) as con: the body ran on the connection from the
\* store d and ended as body = [db, durable, raised, ret], durable being what
\* the body itself committed (d when it committed nothing).  A normal exit
\* commits; an exception leaves without a commit, and closing the connection
\* discards what was not committed.  The connection is closed either way:
\* one was opened, one was closed, and one was open at a time.
connect(d, body) ==
    [db     |-> IF body.raised = NoError THEN body.db ELSE body.durable,
     raised |-> body.raised,
     ret    |-> body.ret,
     opened |-> 1,
     closed |-> 1,
     peak   |-> 1]

\* what a with-body that commits nothing itself hands to connect
Body(d, st, ret) ==
    [db |-> st.db, durable |-> d, raised |-> st.raised,
     ret |-> IF st.raised = NoError THEN ret ELSE <<>>]

\* a statement that names a table the store does not hold: "no such table"
NoSuchTable(d) == connect(d, Body(d, Failed(d, "OperationalError"), <<>>))

\* init_db: CREATE TABLE IF NOT EXISTS makes the four tables of a store that
\* has none and leaves the tables that exist as they are; the PRAGMA acts on
\* this connection alone
init_db(d) ==
    LET con == PragmaForeignKeysOn(sqlite3_connect)
    IN  connect(d, Body(d, Done(IF d = NoTables THEN EmptyDb ELSE d), <<>>))

-----------------------------------------------------------------------------
(* db.py: CRUD *)

LastOf(table) == table[Len(table)]

\* add_customer(c)
add_customer(d, c) ==
    LET con == sqlite3_connect
        st == InsertCustomer(con, d, <<>>, c.name, c.email, c.phone, c.city)
    IN  connect(d, Body(d, st, <<LastOf(st.db.customers).id>>))

\* rows in descending order of id
RECURSIVE OrderByIdDesc(_)
OrderByIdDesc(rows) ==
    IF rows = <<>> THEN <<>>
    ELSE LET top == CHOOSE i \in 1..Len(rows) : \A j \in 1..Len(rows) : rows[j].id <= rows[i].id
             IsRest(r) == r.id # rows[top].id
         IN  <<rows[top]>> \o OrderByIdDesc(SelectSeq(rows, IsRest))

\* get_customers(): SELECT * FROM customers ORDER BY id DESC, each row made a
\* Customer, whose construction validates it
get_customers(d) ==
    IF ~HasTable(d, "customers") THEN NoSuchTable(d)
    ELSE LET rows == OrderByIdDesc(d.customers)
             bad == \E i \in 1..Len(rows) :
                        CustomerPostInit(rows[i].email, rows[i].phone) # NoError
         IN  connect(d, Body(d, IF bad THEN Failed(d, "ValidationError") ELSE Done(d), rows))

\* add_product(p)
add_product(d, p) ==
    LET con == sqlite3_connect
        st == InsertProduct(con, d, <<>>, p.name, p.price, p.sku)
    IN  connect(d, Body(d, st, <<LastOf(st.db.products).id>>))

\* get_products(): SELECT * FROM products ORDER BY id DESC, each row made a
\* Product
get_products(d) ==
    IF ~HasTable(d, "products") THEN NoSuchTable(d)
    ELSE LET rows == OrderByIdDesc(d.products)
             bad == \E i \in 1..Len(rows) : ProductPostInit(rows[i].price) # NoError
         IN  connect(d, Body(d, IF bad THEN Failed(d, "ValidationError") ELSE Done(d), rows))

\* for it in o.items: INSERT INTO order_items, stopping at the first failure
RECURSIVE InsertItems(_, _, _, _)
InsertItems(con, d, order_id, items) ==
    IF items = <<>> THEN Done(d)
    ELSE LET st == InsertOrderItem(con, d, order_id, items[1].product_id,
                                   items[1].quantity, items[1].unit_price)
         IN  IF st.raised # NoError THEN st
             ELSE InsertItems(con, st.db, order_id, Tail(items))

\* add_order(o)
add_order(d, o) ==
    LET con == sqlite3_connect
        st1 == InsertOrder(con, d, <<>>, o.customer_id, isoformat(o.created_at), o.status)
        order_id == LastOf(st1.db.orders).id
        st2 == IF st1.raised # NoError THEN st1
               ELSE InsertItems(con, st1.db, order_id, o.items)
    IN  connect(d, Body(d, st2, <<order_id>>))

\* rows in descending memcmp order of created_at, equal texts in rowid order
RECURSIVE OrderByCreatedAtDesc(_)
OrderByCreatedAtDesc(rows) ==
    IF rows = <<>> THEN <<>>
    ELSE LET top == CHOOSE i \in 1..Len(rows) :
                        /\ \A j \in 1..Len(rows) :
                               ~TextLess(rows[i].created_at, rows[j].created_at)
                        /\ \A j \in 1..(i - 1) : rows[j].created_at # rows[i].created_at
         IN  <<rows[top]>>
                 \o OrderByCreatedAtDesc(SubSeq(rows, 1, top - 1)
                                             \o SubSeq(rows, top + 1, Len(rows)))

\* rows in ascending order of product_id
RECURSIVE OrderByProductId(_)
OrderByProductId(rows) ==
    IF rows = <<>> THEN <<>>
    ELSE LET low == CHOOSE i \in 1..Len(rows) :
                        \A j \in 1..Len(rows) : rows[i].product_id <= rows[j].product_id
             IsRest(r) == r.product_id # rows[low].product_id
         IN  <<rows[low]>> \o OrderByProductId(SelectSeq(rows, IsRest))

\* SELECT * FROM order_items WHERE order_id=?: with no ORDER BY the rows come
\* in the order of the index the lookup uses, the primary key
\* (order_id, product_id)
SelectItems(d, order_id) ==
    LET IsOf(r) == r.order_id = order_id
        rows == OrderByProductId(SelectSeq(d.order_items, IsOf))
    IN  [i \in 1..Len(rows) |->
            [product_id |-> rows[i].product_id, quantity |-> rows[i].quantity,
             unit_price |-> rows[i].unit_price]]

\* a text datetime.fromisoformat takes: one that isoformat wrote, with any
\* separator
IsIsoText(t) ==
    /\ Len(t) \in {19, 25}
    /\ SubSeq(t, 1, 10) = DatePrefix
    /\ AllIn(t, 12, 13, Digit)
    /\ SubSeq(t, 14, 19) = <<":", "0", "0", ":", "0", "0">>
    /\ Len(t) = 25 =>
           /\ t[20] \in {"+", "-"}
           /\ AllIn(t, 21, 22, Digit)
           /\ SubSeq(t, 23, 25) = <<":", "0", "0">>

\* get_orders(): SELECT * FROM orders ORDER BY created_at DESC, each with its
\* order_items rows
get_orders(d) ==
    IF ~HasTable(d, "orders") THEN NoSuchTable(d)
    ELSE LET rows == OrderByCreatedAtDesc(d.orders)
             bad == \E i \in 1..Len(rows) : ~IsIsoText(rows[i].created_at)
             loaded == [i \in 1..Len(rows) |->
                           [id |-> rows[i].id,
                            customer_id |-> rows[i].customer_id,
                            created_at |-> fromisoformat(rows[i].created_at),
                            status |-> rows[i].status,
                            items |-> SelectItems(d, rows[i].id)]]
         IN  connect(d, Body(d, IF bad THEN Failed(d, "ValueError") ELSE Done(d),
                             IF bad THEN <<>> ELSE loaded))

-----------------------------------------------------------------------------
(* db.py: the bulk transfer.  pandas reads a table into a frame, writes a   *)
(* frame as CSV or JSON, reads a file back with its own inference of each   *)
(* column's type, and appends a frame to a table with INSERT statements.    *)

Tables == <<"customers", "products", "orders", "order_items">>

\* the columns of init_db's CREATE TABLE statements
Schema ==
    [customers   |-> <<"id", "name", "email", "phone", "city">>,
     products    |-> <<"id", "name", "price", "sku">>,
     orders      |-> <<"id", "customer_id", "created_at", "status">>,
     order_items |-> <<"order_id", "product_id", "quantity", "unit_price">>]

\* the declared type of a column: INTEGER, REAL or TEXT
AffinityOf(col) ==
    IF col \in {"id", "customer_id", "order_id", "product_id", "quantity"} THEN "INTEGER"
    ELSE IF col \in {"price", "unit_price"} THEN "REAL"
    ELSE "TEXT"

\* a frame's cell: an int64 (num), a float64 in thousandths (num), a str
\* (text) or NaN
IntCell(n) == [kind |-> "int", num |-> n, text |-> <<>>]

FloatCell(m) == [kind |-> "float", num |-> m, text |-> <<>>]

StrCell(t) == [kind |-> "str", num |-> 0, text |-> t]

NaNCell == [kind |-> "nan", num |-> 0, text |-> <<>>]

\* the digits after the point of repr(float): three, less the zeros that end
\* them, and at least one
FracDigits(f) ==
    IF f % 100 = 0 THEN <<DigitChars[(f \div 100) + 1]>>
    ELSE IF f % 10 = 0 THEN TwoDigits(f \div 10)
    ELSE <<DigitChars[(f \div 100) + 1]>> \o TwoDigits(f % 100)

\* repr of a float of so many thousandths: 12500 is 12.5, 10000 is 10.0
FormatReal(m) ==
    LET a == IF m < 0 THEN 0 - m ELSE m
    IN  (IF m < 0 THEN <<"-">> ELSE <<>>)
            \o FormatNat(a \div 1000) \o <<".">> \o FracDigits(a % 1000)

Unsigned(t) == IF Len(t) > 0 /\ t[1] \in {"+", "-"} THEN Tail(t) ELSE t

\* an integer literal: an optional sign, then digits
IsIntLiteral(t) ==
    LET u == Unsigned(t) IN Len(u) >= 1 /\ AllIn(u, 1, Len(u), Digit)

\* a decimal literal with up to three digits after the point
IsFloatLiteral(t) ==
    LET u == Unsigned(t)
    IN  \E k \in 2..(Len(u) - 1) :
            /\ u[k] = "."
            /\ AllIn(u, 1, k - 1, Digit)
            /\ AllIn(u, k + 1, Len(u), Digit)
            /\ Len(u) - k <= 3

ParseInt(t) ==
    IF Len(t) > 0 /\ t[1] = "-" THEN 0 - ParseNat(Unsigned(t)) ELSE ParseNat(Unsigned(t))

\* the thousandths a decimal or integer literal denotes
ParseReal(t) ==
    IF IsIntLiteral(t) THEN 1000 * ParseInt(t)
    ELSE LET u == Unsigned(t)
             k == CHOOSE k \in 2..(Len(u) - 1) : u[k] = "."
             frac == SubSeq(u, k + 1, Len(u))
             pad == IF Len(frac) = 1 THEN 100 ELSE IF Len(frac) = 2 THEN 10 ELSE 1
             a == 1000 * ParseNat(SubSeq(u, 1, k - 1)) + pad * ParseNat(frac)
         IN  IF t[1] = "-" THEN 0 - a ELSE a

\* pd.read_sql_query("SELECT * FROM table"): the stored value of a column as
\* a cell
StoredCell(col, v) ==
    IF AffinityOf(col) = "INTEGER" THEN IntCell(v)
    ELSE IF AffinityOf(col) = "REAL" THEN FloatCell(v)
    ELSE StrCell(v)

\* the frame of a table: its columns, and a sequence of cells for each row
read_sql_query(d, table) ==
    [columns |-> Schema[table],
     rows    |-> [i \in 1..Len(d[table]) |->
                     [k \in 1..Len(Schema[table]) |->
                         StoredCell(Schema[table][k], d[table][i][Schema[table][k]])]]]

\* the text of a cell in a CSV field
CsvField(cell) ==
    IF cell.kind = "int" THEN FormatInt(cell.num)
    ELSE IF cell.kind = "float" THEN FormatReal(cell.num)
    ELSE IF cell.kind = "str" THEN cell.text
    ELSE <<>>

\* df.to_csv(path, index=False): a header and one text field for each cell
to_csv(df) ==
    [format  |-> "csv",
     columns |-> df.columns,
     rows    |-> [i \in 1..Len(df.rows) |->
                     [k \in 1..Len(df.columns) |-> CsvField(df.rows[i][k])]]]

\* a JSON value: a number, written as its literal, or a string
JsonValue(cell) ==
    IF cell.kind = "str" THEN [str |-> TRUE, text |-> cell.text]
    ELSE [str |-> FALSE, text |-> CsvField(cell)]

\* df.to_json(path, orient="records"): one flat object for each row
to_json(df) ==
    [format  |-> "json",
     columns |-> df.columns,
     rows    |-> [i \in 1..Len(df.rows) |->
                     [k \in 1..Len(df.columns) |-> JsonValue(df.rows[i][k])]]]

\* export_to_csv_json: for each table a CSV and a JSON snapshot; it returns
\* the paths, and the files are what it wrote
export_to_csv_json(d) ==
    LET files == [t \in Range(Tables) |->
                     [csv  |-> to_csv(read_sql_query(d, t)),
                      json |-> to_json(read_sql_query(d, t))]]
    IN  connect(d, Body(d, Done(d), files))

\* some of the texts pd.read_csv reads as a missing value
NaStrings ==
    {<<>>, <<"N", "A">>, <<"N", "a", "N">>, <<"n", "a", "n">>, <<"N", "U", "L", "L">>,
     <<"n", "u", "l", "l">>, <<"N", "o", "n", "e">>, <<"N", "/", "A">>, <<"n", "/", "a">>}

Column(file, k) == [i \in 1..Len(file.rows) |-> file.rows[i][k]]

\* pd.read_csv's type of a column of fields: int64 when every field is an
\* integer literal, float64 when every field is a number or missing, and
\* otherwise str with NaN for the missing ones
CsvColumn(fields) ==
    LET IsNa(i) == fields[i] \in NaStrings
        n == Len(fields)
    IN  IF \A i \in 1..n : IsIntLiteral(fields[i])
        THEN [i \in 1..n |-> IntCell(ParseInt(fields[i]))]
        ELSE IF \A i \in 1..n : IsNa(i) \/ IsIntLiteral(fields[i]) \/ IsFloatLiteral(fields[i])
        THEN [i \in 1..n |-> IF IsNa(i) THEN NaNCell ELSE FloatCell(ParseReal(fields[i]))]
        ELSE [i \in 1..n |-> IF IsNa(i) THEN NaNCell ELSE StrCell(fields[i])]

\* the frame with the given columns (a sequence of cells for each column)
FrameOf(names, cols, nrows) ==
    [columns |-> names,
     rows    |-> [i \in 1..nrows |-> [k \in 1..Len(names) |-> cols[k][i]]]]

\* pd.read_csv(path)
read_csv(file) ==
    FrameOf(file.columns,
            [k \in 1..Len(file.columns) |-> CsvColumn(Column(file, k))],
            Len(file.rows))

\* the column names pd.read_json takes for dates
IsDateColumn(col) == col = "created_at"

\* a naive timestamp text, which pd.to_datetime makes a datetime64
IsNaiveIso(t) == IsIsoText(t) /\ Len(t) = 19

\* the text sqlite3 stores for a datetime: isoformat(" ")
IsoSpace(t) == SubSeq(t, 1, 10) \o <<" ">> \o SubSeq(t, 12, Len(t))

\* pd.read_json's type of a column: a date column of naive timestamps becomes
\* datetimes (a str cell holding the text to be stored); a column of strings
\* that all read as numbers becomes numbers; floats that are all whole become
\* int64
JsonColumn(col, values) ==
    LET n == Len(values)
        IsNum(i) == ~values[i].str \/ IsIntLiteral(values[i].text)
                        \/ IsFloatLiteral(values[i].text)
        Whole(i) == IsIntLiteral(values[i].text) \/ ParseReal(values[i].text) % 1000 = 0
        WholeOf(i) == IF IsIntLiteral(values[i].text) THEN ParseInt(values[i].text)
                      ELSE ParseReal(values[i].text) \div 1000
    IN  IF IsDateColumn(col) /\ n > 0
           /\ \A i \in 1..n : values[i].str /\ IsNaiveIso(values[i].text)
        THEN [i \in 1..n |-> StrCell(IsoSpace(values[i].text))]
        ELSE IF n > 0 /\ \A i \in 1..n : IsNum(i)
        THEN IF \A i \in 1..n : Whole(i)
             THEN [i \in 1..n |-> IntCell(WholeOf(i))]
             ELSE [i \in 1..n |-> FloatCell(ParseReal(values[i].text))]
        ELSE [i \in 1..n |->
                 IF values[i].str THEN StrCell(values[i].text)
                 ELSE IF IsIntLiteral(values[i].text) THEN IntCell(ParseInt(values[i].text))
                 ELSE FloatCell(ParseReal(values[i].text))]

\* pd.read_json(path): an empty array gives a frame with no column
read_json(file) ==
    IF file.rows = <<>> THEN [columns |-> <<>>, rows |-> <<>>]
    ELSE FrameOf(file.columns,
                 [k \in 1..Len(file.columns) |->
                     JsonColumn(file.columns[k], Column(file, k))],
                 Len(file.rows))

\* the value SQLite stores for a cell bound to a column of the given type
\* (the files drawn hold numbers in the INTEGER and REAL columns)
Bound(col, cell) ==
    IF AffinityOf(col) = "TEXT"
    THEN IF cell.kind = "int" THEN FormatInt(cell.num)
         ELSE IF cell.kind = "float" THEN FormatReal(cell.num)
         ELSE cell.text
    ELSE IF AffinityOf(col) = "REAL"
    THEN IF cell.kind = "int" THEN 1000 * cell.num ELSE cell.num
    ELSE IF cell.kind = "int" THEN cell.num ELSE cell.num \div 1000

IndexOf(names, col) == CHOOSE k \in 1..Len(names) : names[k] = col

\* INSERT INTO table (the frame's columns) VALUES (one row of the frame): a
\* column the frame lacks takes its default, which only id (assigned by the
\* store) and orders.status have; NULL in a NOT NULL column fails
InsertRow(con, d, table, names, cells) ==
    LET Has(col) == col \in Range(names)
        CellOf(col) == cells[IndexOf(names, col)]
        Null(col) == IF Has(col) THEN CellOf(col).kind = "nan"
                     ELSE ~(col = "id" \/ (table = "orders" /\ col = "status"))
        V(col) == Bound(col, CellOf(col))
        id == IF Has("id") /\ CellOf("id").kind # "nan" THEN <<V("id")>> ELSE <<>>
        mustHave == {Schema[table][k] : k \in 1..Len(Schema[table])} \ {"id"}
    IN  IF \E col \in mustHave : Null(col) THEN Failed(d, "IntegrityError")
        ELSE IF table = "customers"
        THEN InsertCustomer(con, d, id, V("name"), V("email"), V("phone"), V("city"))
        ELSE IF table = "products"
        THEN InsertProduct(con, d, id, V("name"), V("price"), V("sku"))
        ELSE IF table = "orders"
        THEN InsertOrder(con, d, id, V("customer_id"), V("created_at"),
                         IF Has("status") THEN V("status") ELSE <<"n", "e", "w">>)
        ELSE InsertOrderItem(con, d, V("order_id"), V("product_id"), V("quantity"),
                             V("unit_price"))

RECURSIVE InsertRows(_, _, _, _, _)
InsertRows(con, d, table, names, rows) ==
    IF rows = <<>> THEN Done(d)
    ELSE LET st == InsertRow(con, d, table, names, rows[1])
         IN  IF st.raised # NoError THEN st
             ELSE InsertRows(con, st.db, table, names, Tail(rows))

\* df.to_sql(table, con, if_exists="append", index=False): every row is
\* inserted in one transaction of pandas' own, committed when all went in and
\* rolled back when one failed; a column the table lacks fails the statement
to_sql(con, d, table, df) ==
    IF \E k \in 1..Len(df.columns) : df.columns[k] \notin Range(Schema[table])
    THEN Failed(d, "OperationalError")
    ELSE LET st == InsertRows(con, d, table, df.columns, df.rows)
         IN  IF st.raised # NoError THEN Failed(d, st.raised) ELSE st

\* for table, path in paths.items(): read the file, append it; each entry of
\* paths is [table, file]
RECURSIVE ImportEach(_, _, _)
ImportEach(con, d, paths) ==
    IF paths = <<>> THEN Done(d)
    ELSE LET df == IF paths[1].file.format = "csv" THEN read_csv(paths[1].file)
                   ELSE read_json(paths[1].file)
             st == to_sql(con, d, paths[1].table, df)
         IN  IF st.raised # NoError THEN st
             ELSE ImportEach(con, st.db, Tail(paths))

\* import_from_csv_json(csv_paths, json_paths): the CSV files, then the JSON
\* files.  What to_sql committed stays when a later file fails.
import_from_csv_json(d, csv_paths, json_paths) ==
    LET con == sqlite3_connect
        st == ImportEach(con, d, csv_paths \o json_paths)
    IN  connect(d, [db |-> st.db, durable |-> st.db, raised |-> st.raised, ret |-> <<>>])

-----------------------------------------------------------------------------
(* The texts and entities the model draws *)

EmailAnn == <<"a", "n", "n", "@", "e", "x", ".", "i", "o">>

EmailBob == <<"b", "o", "b", "@", "e", "x", ".", "i", "o">>

EmailBad == <<"n", "o", "t", "-", "a", "n", "-", "e", "m", "a", "i", "l">>

PhoneAnn == <<"+", "1", " ", "5", "5", "5", "-", "0", "1", "0", "0">>

PhoneZeros == <<"0", "0", "1", "2", "3", "4", "5">>

PhoneDigits == <<"1", "2", "3", "4", "5", "6", "7">>

NameAnn == <<"A", "n", "n">>

CityRiga == <<"R", "i", "g", "a">>

StatusNew == <<"n", "e", "w">>

SkuA == <<"A", "1">>

SkuB == <<"0", "0", "7">>

Noon2 == [hour |-> 12, tz |-> <<2>>]       \* 12:00+02:00, which is 10:00 UTC

Eleven0 == [hour |-> 11, tz |-> <<0>>]     \* 11:00+00:00

NaiveTen == [hour |-> 10, tz |-> <<>>]

NaiveNoon == [hour |-> 12, tz |-> <<>>]

Item(p, q, u) == [product_id |-> p, quantity |-> q, unit_price |-> u]

\* Customer(name, email, phone, city): the customers that can be constructed
Customers(names, emails, phones) ==
    {c \in [name : names, email : emails, phone : phones, city : {CityRiga}] :
        CustomerPostInit(c.email, c.phone) = NoError}

\* Product(name, price, sku): the products that can be constructed
Products(prices, skus) ==
    {p \in [name : {NameAnn}, price : prices, sku : skus] :
        ProductPostInit(p.price) = NoError}

\* Order(customer_id, created_at, items): nothing is validated
NewOrder(c, at, items) ==
    [customer_id |-> c, created_at |-> at, items |-> items, status |-> StatusNew]

-----------------------------------------------------------------------------
(* The entities alone: an Order is constructed and items are added to it *)

MaxItems == 3

NoOp == [op |-> "none", arg |-> <<>>]

\* the shell is not running
GuiIdle ==
    /\ app = "stopped"
    /\ cached = <<>>
    /\ customer_tree = <<>>
    /\ orders_tree = <<>>
    /\ shown = <<>>

\* items of a negative, no or some quantity, at 0.10, 0.20, 1.25 and 2.675
ItemInputs == {Item(1, q, u) : q \in {0 - 1, 0, 1, 3}, u \in {100, 200, 1250, 2675}}

\* the items an order is constructed with: nothing checks them
ConstructInputs == {item \in ItemInputs : item.quantity >= 0}

\* what the specifications of the entities and of the sort leave alone
StoreIdle ==
    /\ db = EmptyDb
    /\ target = EmptyDb
    /\ open_conns = 0
    /\ peak_conns = 0
    /\ GuiIdle

SortIdle == sort_in = <<>> /\ sort_how = "date" /\ sort_out = <<>>

InitModels ==
    /\ order = [items |-> <<>>]
    /\ last = NoOp
    /\ raised = NoError
    /\ result = <<>>
    /\ SortIdle
    /\ StoreIdle

\* Order(customer_id, created_at, items=[...]): the items are taken as given
ConstructOrder(items) ==
    /\ order' = [items |-> items]
    /\ last' = [op |-> "Order", arg |-> items]
    /\ raised' = NoError
    /\ UNCHANGED <<sort_in, sort_how, sort_out, db, target, open_conns, peak_conns,
                   gui, result>>

\* order.add_item(item)
AddItem(item) ==
    /\ Len(order.items) < MaxItems
    /\ LET r == add_item(order.items, item)
       IN  /\ order' = [items |-> r.items]
           /\ raised' = r.raised
    /\ last' = [op |-> "add_item", arg |-> item]
    /\ UNCHANGED <<sort_in, sort_how, sort_out, db, target, open_conns, peak_conns,
                   gui, result>>

NextModels ==
    \/ \E item \in ConstructInputs : ConstructOrder(<<item>>)
    \/ ConstructOrder(<<>>)
    \/ \E item \in ItemInputs : AddItem(item)

SpecModels == InitModels /\ [][NextModels]_vars

-----------------------------------------------------------------------------
(* The sort alone: App.sort_orders sorts a list of loaded orders *)

MaxSortLen == 4

SortDates == {NaiveTen, [hour |-> 11, tz |-> <<>>], NaiveNoon}

SortItems == {<<Item(1, 1, 1250)>>, <<Item(1, 1, 125), Item(2, 1, 125)>>}

\* the lists of up to MaxSortLen loaded orders, each with its own id
SortInputs ==
    UNION {
        {[i \in 1..n |-> [id |-> i, created_at |-> at[i], items |-> its[i]]] :
            at \in [1..n -> SortDates], its \in [1..n -> SortItems]} :
        n \in 0..MaxSortLen}

InitSort ==
    /\ sort_in \in SortInputs
    /\ sort_how \in {"date", "total"}
    /\ sort_out = <<>>
    /\ order = [items |-> <<>>]
    /\ last = NoOp
    /\ raised = NoError
    /\ result = <<>>
    /\ StoreIdle

\* sorted_orders = quicksort_orders(orders, key=...)
SortOrders ==
    /\ last = NoOp
    /\ sort_out' = quicksort_orders(sort_in, SortKey(sort_how, sort_in))
    /\ last' = [op |-> "quicksort_orders", arg |-> sort_how]
    /\ UNCHANGED <<order, sort_in, sort_how, db, target, open_conns, peak_conns,
                   gui, raised, result>>

NextSort == SortOrders

SpecSort == InitSort /\ [][NextSort]_vars

-----------------------------------------------------------------------------
(* The persistence gateway: the functions of db.py called one at a time on  *)
(* a store that init_db has created                                         *)

MaxCustomers == 2

MaxProducts == 1

MaxOrders == 2

MaxOrderItems == 3

CustomerInputs == Customers({NameAnn}, {EmailAnn, EmailBob}, {PhoneAnn})

ProductInputs == Products({1250}, {SkuA, SkuB})

\* orders as a caller may construct them: with no item at one time or
\* another, for a customer that does not exist and with an item of quantity
\* 0, with two items in descending product order, with two items of one
\* product
OrderInputs ==
    {NewOrder(1, Noon2, <<>>),
     NewOrder(1, Eleven0, <<>>),
     NewOrder(9, Noon2, <<Item(1, 0, 1250)>>),
     NewOrder(1, Noon2, <<Item(2, 1, 250), Item(1, 2, 1250)>>),
     NewOrder(1, Noon2, <<Item(1, 1, 1250), Item(1, 2, 1250)>>)}

CsvFile(columns, rows) == [format |-> "csv", columns |-> columns, rows |-> rows]

JsonFile(columns, rows) == [format |-> "json", columns |-> columns, rows |-> rows]

JsonStr(t) == [str |-> TRUE, text |-> t]

\* files a user may hand to the import: customers without identifiers, one
\* with a malformed email; an order_items row of quantity 0
CustomersCsv(email) ==
    CsvFile(<<"name", "email", "phone", "city">>, <<<<NameAnn, email, PhoneAnn, CityRiga>>>>)

CustomersJson(email) ==
    JsonFile(<<"name", "email", "phone", "city">>,
             <<<<JsonStr(NameAnn), JsonStr(email), JsonStr(PhoneAnn), JsonStr(CityRiga)>>>>)

ItemsCsv ==
    CsvFile(<<"order_id", "product_id", "quantity", "unit_price">>,
            <<<<<<"1">>, <<"1">>, <<"0">>, <<"1", ".", "2", "5">>>>>>)

ImportInputs ==
    <<[table |-> "customers", file |-> CustomersCsv(EmailBob)],
      [table |-> "customers", file |-> CustomersCsv(EmailBad)],
      [table |-> "customers", file |-> CustomersJson(EmailAnn)],
      [table |-> "products", file |-> CustomersCsv(EmailBob)],
      [table |-> "order_items", file |-> ItemsCsv]>>

EntitiesIdle == order = [items |-> <<>>] /\ SortIdle

Init ==
    /\ db = EmptyDb
    /\ target = EmptyDb
    /\ open_conns = 0
    /\ peak_conns = 0
    /\ GuiIdle
    /\ last = NoOp
    /\ raised = NoError
    /\ result = <<>>
    /\ EntitiesIdle

\* one call of a function of db.py that ended as r
Call(op, arg, r) ==
    /\ db' = r.db
    /\ raised' = r.raised
    /\ result' = r.ret
    /\ open_conns' = open_conns + r.opened - r.closed
    /\ peak_conns' = open_conns + r.peak
    /\ last' = [op |-> op, arg |-> arg]
    /\ UNCHANGED <<order, sort_in, sort_how, sort_out, target, gui>>

InitDb == Call("init_db", <<>>, init_db(db))

AddCustomer(c) ==
    /\ Len(db.customers) < MaxCustomers
    /\ Call("add_customer", c, add_customer(db, c))

GetCustomers == Call("get_customers", <<>>, get_customers(db))

AddProduct(p) ==
    /\ Len(db.products) < MaxProducts
    /\ Call("add_product", p, add_product(db, p))

GetProducts == Call("get_products", <<>>, get_products(db))

AddOrder(o) ==
    /\ Len(db.orders) < MaxOrders
    /\ Len(db.order_items) + Len(o.items) <= MaxOrderItems
    /\ Call("add_order", o, add_order(db, o))

GetOrders == Call("get_orders", <<>>, get_orders(db))

ExportData == Call("export_to_csv_json", <<>>, export_to_csv_json(db))

ImportData(in) ==
    /\ Len(db.customers) < MaxCustomers
    /\ Len(db.order_items) < MaxOrderItems
    /\ Call("import_from_csv_json", in,
            IF in.file.format = "csv" THEN import_from_csv_json(db, <<in>>, <<>>)
            ELSE import_from_csv_json(db, <<>>, <<in>>))

Next ==
    \/ InitDb
    \/ \E c \in CustomerInputs : AddCustomer(c)
    \/ GetCustomers
    \/ \E p \in ProductInputs : AddProduct(p)
    \/ GetProducts
    \/ \E o \in OrderInputs : AddOrder(o)
    \/ GetOrders
    \/ ExportData
    \/ \E k \in 1..Len(ImportInputs) : ImportData(ImportInputs[k])

Spec == Init /\ [][Next]_vars

-----------------------------------------------------------------------------
(* The round trip: a populated store is exported, and the files are         *)
(* imported into a second store that init_db has created                    *)

MaxXferCustomers == 2

MaxXferProducts == 1

MaxXferOrders == 1

MaxImports == 2

RECURSIVE AddCustomers(_, _)
AddCustomers(d, cs) ==
    IF cs = <<>> THEN d ELSE AddCustomers(add_customer(d, cs[1]).db, Tail(cs))

RECURSIVE AddProducts(_, _)
AddProducts(d, ps) ==
    IF ps = <<>> THEN d ELSE AddProducts(add_product(d, ps[1]).db, Tail(ps))

RECURSIVE AddOrders(_, _)
AddOrders(d, os) ==
    IF os = <<>> THEN d ELSE AddOrders(add_order(d, os[1]).db, Tail(os))

SeqsUpTo(S, n) == UNION {[1..k -> S] : k \in 0..n}

XferCustomers ==
    {c \in Customers({NameAnn, <<>>}, {EmailAnn, EmailBob}, {PhoneAnn, PhoneZeros, PhoneDigits}) :
        \/ c.name = NameAnn /\ c.email = EmailAnn /\ c.phone = PhoneAnn
        \/ c.name = NameAnn /\ c.email = EmailBob /\ c.phone = PhoneZeros
        \/ c.name = <<>> /\ c.email = EmailAnn /\ c.phone = PhoneDigits}

XferProducts == Products({1250}, {SkuA}) \cup Products({10000}, {SkuB})

XferOrders == {NewOrder(1, NaiveNoon, <<Item(1, 2, 1250)>>), NewOrder(1, Noon2, <<>>)}

\* the stores that the create operations make of the drawn entities
PopulatedStores ==
    {AddOrders(AddProducts(AddCustomers(EmptyDb, cs), ps), os) :
        cs \in SeqsUpTo(XferCustomers, MaxXferCustomers),
        ps \in SeqsUpTo(XferProducts, MaxXferProducts),
        os \in SeqsUpTo(XferOrders, MaxXferOrders)}

InitTransfer ==
    /\ db \in PopulatedStores
    /\ target = EmptyDb
    /\ open_conns = 0
    /\ peak_conns = 0
    /\ GuiIdle
    /\ last = NoOp
    /\ raised = NoError
    /\ result = <<>>
    /\ EntitiesIdle

\* export_to_csv_json on the populated store; result holds the files
XferExport ==
    /\ last = NoOp
    /\ Call("export_to_csv_json", <<>>, export_to_csv_json(db))

\* the n+1st import into the second store ended as r
Imported(table, format, n, r) ==
    /\ n < MaxImports
    /\ target' = r.db
    /\ raised' = r.raised
    /\ open_conns' = open_conns + r.opened - r.closed
    /\ peak_conns' = open_conns + r.peak
    /\ last' = [op |-> "import_from_csv_json",
                arg |-> [table |-> table, format |-> format, imports |-> n + 1]]
    /\ UNCHANGED <<order, sort_in, sort_how, sort_out, db, gui, result>>

\* import_from_csv_json on the second store, of one exported file into the
\* table it was exported from
XferImport(table, format) ==
    /\ last.op \in {"export_to_csv_json", "import_from_csv_json"}
    /\ Imported(table, format,
                IF last.op = "export_to_csv_json" THEN 0 ELSE last.arg.imports,
                import_from_csv_json(target,
                    IF format = "csv"
                    THEN <<[table |-> table, file |-> result[table][format]]>> ELSE <<>>,
                    IF format = "json"
                    THEN <<[table |-> table, file |-> result[table][format]]>> ELSE <<>>))

NextTransfer ==
    \/ XferExport
    \/ \E t \in Range(Tables), f \in {"csv", "json"} : XferImport(t, f)

SpecTransfer == InitTransfer /\ [][NextTransfer]_vars

-----------------------------------------------------------------------------
(* The interactive shell: App of gui.py, run on a store file that has no    *)
(* table yet or on one whose tables exist.  A handler runs to its end       *)
(* before the next event is taken.  What a handler reads from an entry of   *)
(* the form is drawn when the handler runs.                                 *)

MaxGuiCustomers == 2

MaxGuiOrders == 1

\* str.lower on ASCII text
Lower(t) ==
    [i \in 1..Len(t) |->
        IF t[i] \in Range(Ascii) /\ CharCode(t[i]) \in 65..90
        THEN Ascii[CharCode(t[i]) + 1] ELSE t[i]]

RECURSIVE LStrip(_)
LStrip(t) == IF t # <<>> /\ t[1] = " " THEN LStrip(Tail(t)) ELSE t

RECURSIVE RStrip(_)
RStrip(t) == IF t # <<>> /\ t[Len(t)] = " " THEN RStrip(SubSeq(t, 1, Len(t) - 1)) ELSE t

\* str.strip
Strip(t) == LStrip(RStrip(t))

\* int(text): blanks around an optional sign and digits, or ValueError
PyInt(t) ==
    IF IsIntLiteral(Strip(t)) THEN [raised |-> NoError, value |-> ParseInt(Strip(t))]
    ELSE [raised |-> "ValueError", value |-> 0]

\* float(text), in thousandths: blanks around a decimal or integer literal, or
\* ValueError
PyFloat(t) ==
    IF IsIntLiteral(Strip(t)) \/ IsFloatLiteral(Strip(t))
    THEN [raised |-> NoError, value |-> ParseReal(Strip(t))]
    ELSE [raised |-> "ValueError", value |-> 0]

\* created_at.strftime("%Y-%m-%d %H:%M")
strftime(dt) == DatePrefix \o <<" ">> \o TwoDigits(dt.hour) \o <<":", "0", "0">>

\* f"{x:.2f}" of an amount that round(x, 2) made
Format2f(m) ==
    LET a == IF m < 0 THEN 0 - m ELSE m
    IN  (IF m < 0 THEN <<"-">> ELSE <<>>)
            \o FormatNat(a \div 1000) \o <<".">> \o TwoDigits((a % 1000) \div 10)

OrderRow(o) ==
    [id |-> o.id, customer_id |-> o.customer_id, created_at |-> strftime(o.created_at),
     status |-> o.status, total |-> Format2f(total(o.items).t)]

\* App.refresh_customers, r being what get_customers did: the tree is
\* emptied, then filled
RefreshedCustomers(r) ==
    [raised |-> r.raised,
     customer_tree |-> IF r.raised = NoError THEN r.ret ELSE <<>>,
     calls |-> <<r>>]

refresh_customers(d) == RefreshedCustomers(get_customers(d))

\* App.refresh_orders, r being what get_orders did: the tree is emptied, then
\* filled, less the orders the status filter leaves out; the list shown is
\* cached
RefreshedOrders(r, status, cache) ==
    LET Kept(o) == status = <<>> \/ Lower(o.status) = status
    IN  [raised |-> r.raised,
         orders_tree |-> IF r.raised = NoError
                         THEN [i \in 1..Len(SelectSeq(r.ret, Kept)) |->
                                  OrderRow(SelectSeq(r.ret, Kept)[i])]
                         ELSE <<>>,
         cached |-> IF r.raised = NoError THEN <<SelectSeq(r.ret, Kept)>> ELSE cache,
         calls |-> <<r>>]

refresh_orders(d, filter_status, cache) ==
    RefreshedOrders(get_orders(d), Lower(Strip(filter_status)), cache)

\* what a handler made of the shell and the store
Handled(d, ctree, otree, cache, boxes, exc, calls) ==
    [db |-> d, customer_tree |-> ctree, orders_tree |-> otree, cached |-> cache,
     shown |-> boxes, raised |-> exc, calls |-> calls]

\* the connections open after the first k of the calls
OpenAfter(calls, k) ==
    open_conns + SumSeq([i \in 1..k |-> calls[i].opened - calls[i].closed])

\* one handler that ended as h; an exception that leaves a handler is
\* reported by Tk's callback wrapper on stderr, and the main loop goes on.
\* The files an export writes are what export_to_csv_json makes of the store
\* at that time; the shell never reads them back, and they are not kept.
Handle(op, arg, h) ==
    /\ app = "running"
    /\ db' = h.db
    /\ customer_tree' = h.customer_tree
    /\ orders_tree' = h.orders_tree
    /\ cached' = h.cached
    /\ shown' = h.shown
    /\ raised' = h.raised
    /\ open_conns' = OpenAfter(h.calls, Len(h.calls))
    /\ peak_conns' = IF h.calls = <<>> THEN 0
                     ELSE MaxOf({OpenAfter(h.calls, k - 1) + h.calls[k].peak :
                                    k \in 1..Len(h.calls)})
    /\ last' = [op |-> op, arg |-> arg]
    /\ UNCHANGED <<order, sort_in, sort_how, sort_out, target, app, result>>

\* Customer(name=..., city=self.c_city.get() or "Unknown")
FormCustomer(form) ==
    [name |-> form.name, email |-> form.email, phone |-> form.phone,
     city |-> IF form.city = <<>> THEN <<"U", "n", "k", "n", "o", "w", "n">> ELSE form.city]

\* App.add_customer, invalid being what constructing the Customer raised, ra
\* what db.add_customer did and rc what the refresh after it did
AddCustomerHandled(d, invalid, ra, rc) ==
    IF invalid # NoError
    THEN Handled(d, customer_tree, orders_tree, cached, <<"showerror">>, NoError, <<>>)
    ELSE IF ra.raised # NoError
    THEN Handled(ra.db, customer_tree, orders_tree, cached, <<"showerror">>, NoError, <<ra>>)
    ELSE Handled(ra.db, rc.customer_tree, orders_tree, cached,
                 IF rc.raised # NoError THEN <<"showerror">> ELSE <<"showinfo">>,
                 NoError, <<ra>> \o rc.calls)

gui_add_customer(d, form) ==
    AddCustomerHandled(d, CustomerPostInit(form.email, form.phone),
                       add_customer(d, FormCustomer(form)),
                       refresh_customers(add_customer(d, FormCustomer(form)).db))

\* the Order of App.add_order: Order(customer_id, datetime.now(), items=[])
\* and add_item of the OrderItem; raised is the first exception on the way
FormOrder(customer_id, product_id, qty, price, now) ==
    [raised |-> IF \E v \in {customer_id, product_id, qty, price} : v.raised # NoError
                THEN "ValueError"
                ELSE add_item(<<>>, Item(product_id.value, qty.value, price.value)).raised,
     order  |-> NewOrder(customer_id.value, now,
                         add_item(<<>>, Item(product_id.value, qty.value, price.value)).items)]

\* App.add_order, o being the order made of the form, ra what db.add_order
\* did and ro what the refresh after it did
AddOrderHandled(d, o, ra, ro) ==
    IF o.raised # NoError
    THEN Handled(d, customer_tree, orders_tree, cached, <<"showerror">>, NoError, <<>>)
    ELSE IF ra.raised # NoError
    THEN Handled(ra.db, customer_tree, orders_tree, cached, <<"showerror">>, NoError, <<ra>>)
    ELSE Handled(ra.db, customer_tree, ro.orders_tree, ro.cached,
                 IF ro.raised # NoError THEN <<"showerror">> ELSE <<"showinfo">>,
                 NoError, <<ra>> \o ro.calls)

OrderOf(form, now) ==
    FormOrder(PyInt(form.customer_id), PyInt(form.product_id), PyInt(form.qty),
              PyFloat(form.price), now)

\* App.add_order, at the time now of datetime.now()
gui_add_order(d, form, now, filter_status) ==
    AddOrderHandled(d, OrderOf(form, now), add_order(d, OrderOf(form, now).order),
                    refresh_orders(add_order(d, OrderOf(form, now).order).db,
                                   filter_status, cached))

\* App.import_data, ri being what the import did and rc what the refresh
\* after it did
ImportHandled(ri, rc) ==
    IF ri.raised # NoError
    THEN Handled(ri.db, customer_tree, orders_tree, cached, <<"showerror">>, NoError, <<ri>>)
    ELSE Handled(ri.db, rc.customer_tree, orders_tree, cached,
                 IF rc.raised # NoError THEN <<"showinfo", "showerror">> ELSE <<"showinfo">>,
                 NoError, <<ri>> \o rc.calls)

\* db.import_from_csv_json(csv_paths={"customers": path}), or json_paths
ImportCustomers(d, file) ==
    import_from_csv_json(d,
        IF file.format = "csv" THEN <<[table |-> "customers", file |-> file]>> ELSE <<>>,
        IF file.format = "csv" THEN <<>> ELSE <<[table |-> "customers", file |-> file]>>)

\* App.import_data of the file chosen, into the customers table
gui_import_data(d, file) ==
    ImportHandled(ImportCustomers(d, file), refresh_customers(ImportCustomers(d, file).db))

ExportHandled(r) ==
    Handled(r.db, customer_tree, orders_tree, cached,
            IF r.raised # NoError THEN <<"showerror">> ELSE <<"showinfo">>,
            NoError, <<r>>)

\* App.export_data
gui_export_data(d) == ExportHandled(export_to_csv_json(d))

RefreshOrdersHandled(d, ro) ==
    Handled(d, customer_tree, ro.orders_tree, ro.cached, <<>>, ro.raised, ro.calls)

\* App.refresh_orders as the handler of its button: nothing catches
gui_refresh_orders(d, filter_status) ==
    RefreshOrdersHandled(d, refresh_orders(d, filter_status, cached))

\* App.sort_orders, r being what get_orders did and orders the list to sort;
\* comparing a naive created_at with an aware one raises TypeError
SortOrdersHandled(d, how, r, orders) ==
    IF r.raised # NoError
    THEN Handled(d, customer_tree, orders_tree, cached, <<>>, r.raised, <<r>>)
    ELSE IF /\ how = "date"
            /\ \E a, b \in Range(orders) : (a.created_at.tz = <<>>) # (b.created_at.tz = <<>>)
    THEN Handled(d, customer_tree, orders_tree, cached, <<>>, "TypeError", <<r>>)
    ELSE Handled(d, customer_tree,
                 [i \in 1..Len(orders) |->
                     OrderRow(quicksort_orders(orders, SortKey(how, orders))[i])],
                 cached, <<>>, NoError, <<r>>)

\* App.sort_orders: the default of getattr is evaluated before getattr looks,
\* so get_orders runs every time; nothing catches
gui_sort_orders(d, how) ==
    SortOrdersHandled(d, how, get_orders(d),
                      IF cached # <<>> THEN cached[1] ELSE get_orders(d).ret)

AppInitHandled(d, rc, ro, ri) ==
    IF rc.raised # NoError
    THEN Handled(d, <<>>, <<>>, <<>>, <<>>, rc.raised, rc.calls)
    ELSE IF ro.raised # NoError
    THEN Handled(d, <<>>, <<>>, <<>>, <<>>, ro.raised, rc.calls \o ro.calls)
    ELSE Handled(ri.db, rc.customer_tree, ro.orders_tree, ro.cached, <<>>, ri.raised,
                 rc.calls \o ro.calls \o <<ri>>)

\* App.__init__: the tabs are built, each filling its tree from the store,
\* and init_db comes last
app_init(d) ==
    AppInitHandled(d, refresh_customers(d), refresh_orders(d, <<>>, <<>>), init_db(d))

CustomerForms ==
    {[name |-> NameAnn, email |-> EmailAnn, phone |-> PhoneAnn, city |-> CityRiga],
     [name |-> NameAnn, email |-> EmailBob, phone |-> PhoneAnn, city |-> <<>>],
     [name |-> NameAnn, email |-> EmailBad, phone |-> PhoneAnn, city |-> CityRiga]}

OrderForms ==
    {[customer_id |-> <<"1">>, product_id |-> <<"1">>, qty |-> q,
      price |-> <<"1", "2", ".", "5">>] : q \in {<<"2">>, <<"0">>, <<"x">>}}
    \cup {[customer_id |-> <<" ", "9">>, product_id |-> <<"1">>, qty |-> <<"1">>,
           price |-> <<"0", ".", "0">>]}

\* the files a user may choose: a customer, a customer whose email is
\* malformed, a customer as JSON
GuiFiles == <<CustomersCsv(EmailBob), CustomersCsv(EmailBad), CustomersJson(EmailAnn)>>

FilterInputs == {<<>>, <<"P", "a", "i", "d", " ">>}

\* the local times datetime.now() may give
NowInputs == {NaiveTen, NaiveNoon}

\* the application is not running; its store file is new, or has the tables
\* that an earlier init_db made
InitGui ==
    /\ db \in {NoTables, EmptyDb}
    /\ target = EmptyDb
    /\ open_conns = 0
    /\ peak_conns = 0
    /\ GuiIdle
    /\ last = NoOp
    /\ raised = NoError
    /\ result = <<>>
    /\ EntitiesIdle

\* App() ended as h
Started(h) ==
    /\ db' = h.db
    /\ customer_tree' = h.customer_tree
    /\ orders_tree' = h.orders_tree
    /\ cached' = h.cached
    /\ shown' = h.shown
    /\ raised' = h.raised
    /\ app' = IF h.raised = NoError THEN "running" ELSE "stopped"
    /\ open_conns' = OpenAfter(h.calls, Len(h.calls))
    /\ peak_conns' = MaxOf({OpenAfter(h.calls, k - 1) + h.calls[k].peak :
                               k \in 1..Len(h.calls)})
    /\ last' = [op |-> "App.__init__", arg |-> <<>>]
    /\ UNCHANGED <<order, sort_in, sort_how, sort_out, target, result>>

\* run(): App() and then the main loop; an exception in App.__init__ ends
\* the process
GuiStart ==
    /\ app = "stopped"
    /\ Started(app_init(db))

\* File / Exit: App.destroy ends the main loop
GuiExit ==
    /\ app = "running"
    /\ app' = "stopped"
    /\ cached' = <<>>
    /\ customer_tree' = <<>>
    /\ orders_tree' = <<>>
    /\ shown' = <<>>
    /\ raised' = NoError
    /\ last' = [op |-> "App.destroy", arg |-> <<>>]
    /\ UNCHANGED <<order, sort_in, sort_how, sort_out, db, target, open_conns,
                   peak_conns, result>>

GuiAddCustomer(form) ==
    /\ app = "running"
    /\ Len(db.customers) < MaxGuiCustomers
    /\ Handle("App.add_customer", form, gui_add_customer(db, form))

GuiAddOrder(form, now, filter_status) ==
    /\ app = "running"
    /\ Len(db.orders) < MaxGuiOrders
    /\ Handle("App.add_order", form, gui_add_order(db, form, now, filter_status))

\* the file dialog was cancelled: import_data returns at once
GuiImportCancelled ==
    Handle("App.import_data", <<>>,
           Handled(db, customer_tree, orders_tree, cached, <<>>, NoError, <<>>))

GuiImport(file) ==
    /\ app = "running"
    /\ Len(db.customers) < MaxGuiCustomers
    /\ Handle("App.import_data", file, gui_import_data(db, file))

GuiExport == Handle("App.export_data", <<>>, gui_export_data(db))

GuiRefreshOrders(filter_status) ==
    Handle("App.refresh_orders", filter_status, gui_refresh_orders(db, filter_status))

GuiSortOrders(how) == Handle("App.sort_orders", how, gui_sort_orders(db, how))

NextGui ==
    \/ GuiStart
    \/ GuiExit
    \/ \E form \in CustomerForms : GuiAddCustomer(form)
    \/ \E form \in OrderForms, now \in NowInputs, f \in FilterInputs :
           GuiAddOrder(form, now, f)
    \/ GuiImportCancelled
    \/ \E k \in 1..Len(GuiFiles) : GuiImport(GuiFiles[k])
    \/ GuiExport
    \/ \E f \in FilterInputs : GuiRefreshOrders(f)
    \/ \E how \in {"date", "total"} : GuiSortOrders(how)

SpecGui == InitGui /\ [][NextGui]_vars

-----------------------------------------------------------------------------
(* Claims about the entities and the sort *)

\* C1: Order.add_item with quantity <= 0 raises ValidationError and leaves the
\* item list as it was; with quantity > 0 it appends the item as the last
\* element, the earlier items unchanged, and Order.total() afterwards is
\* round(total before + round(quantity * unit_price, 2), 2): it grows by the
\* item's subtotal to the hundredth.
C1_AddItem ==
    [][last'.op = "add_item" =>
          LET it == last'.arg
          IN  IF it.quantity <= 0
              THEN raised' = "ValidationError" /\ order'.items = order.items
              ELSE /\ raised' = NoError
                   /\ order'.items = Append(order.items, it)
                   /\ total(order'.items)
                          = Round2(FloatPlus(total(order.items), subtotal(it)))]_vars

\* C1 as stated: with quantity > 0 the total afterwards is the total before
\* plus round(quantity * unit_price, 2), exactly.
C1_AddItemExactly ==
    [][last'.op = "add_item" =>
          LET it == last'.arg
          IN  IF it.quantity <= 0
              THEN raised' = "ValidationError" /\ order'.items = order.items
              ELSE /\ raised' = NoError
                   /\ order'.items = Append(order.items, it)
                   /\ total(order'.items)
                          = FloatPlus(total(order.items), subtotal(it))]_vars

\* An item was added to an order that held items already, and the sum of the
\* total before and the item's subtotal is not a float of whole hundredths.
C1_Witness ==
    /\ last.op = "add_item"
    /\ raised = NoError
    /\ Len(order.items) >= 2
    /\ order.items[Len(order.items)] = last.arg
    /\ LET before == SubSeq(order.items, 1, Len(order.items) - 1)
           sum == FloatPlus(total(before), subtotal(last.arg))
       IN  sum # Round2(sum) /\ total(order.items) = Round2(sum)

Sorted == last.op = "quicksort_orders"

KeyAt(s, i) == SortKey(sort_how, sort_in)[s[i]]

Count(s, e) == Cardinality({i \in 1..Len(s) : s[i] = e})

\* C5: quicksort_orders returns a list of the same length and the same
\* multiset of elements as its input, non-decreasing under the key; the empty
\* list gives the empty list and a one-element list an equal list.
C5_SortedPermutation ==
    Sorted =>
        /\ Len(sort_out) = Len(sort_in)
        /\ \A e \in Range(sort_in) \cup Range(sort_out) :
               Count(sort_out, e) = Count(sort_in, e)
        /\ \A i \in 1..(Len(sort_out) - 1) : KeyAt(sort_out, i) <= KeyAt(sort_out, i + 1)
        /\ Len(sort_in) <= 1 => sort_out = sort_in

\* A list of several orders, some with equal keys, that was not sorted before.
C5_Witness ==
    /\ Sorted
    /\ Len(sort_in) >= 3
    /\ sort_out # sort_in
    /\ \E i, j \in 1..Len(sort_in) : i # j /\ KeyAt(sort_in, i) = KeyAt(sort_in, j)

PositionIn(s, e) == CHOOSE i \in 1..Len(s) : s[i] = e

\* C6: quicksort_orders is stable: two elements with equal keys keep the
\* relative order they had in the input.
C6_Stable ==
    Sorted =>
        \A i, j \in 1..Len(sort_out) :
            (i < j /\ KeyAt(sort_out, i) = KeyAt(sort_out, j))
                => PositionIn(sort_in, sort_out[i]) < PositionIn(sort_in, sort_out[j])

\* Two equal-key elements that are not the pivot's equals: they fell into
\* the same side partition and were sorted by the recursion.
C6_Witness ==
    /\ Sorted
    /\ Len(sort_in) = MaxSortLen
    /\ sort_out # sort_in
    /\ LET pk == KeyAt(sort_in, (Len(sort_in) \div 2) + 1)
       IN  \E i, j \in 1..Len(sort_in) :
               /\ i < j
               /\ KeyAt(sort_in, i) = KeyAt(sort_in, j)
               /\ KeyAt(sort_in, i) < pk
               /\ \E k \in 1..Len(sort_in) : KeyAt(sort_in, k) < KeyAt(sort_in, i)

-----------------------------------------------------------------------------
(* Claims about the persistence gateway *)

\* C2: the store never holds an invalid entity: every customers row has an
\* email and a phone that pass Customer's validation, every products row a
\* price >= 0 and every order_items row a quantity > 0.
C2_NoInvalidEntityStored ==
    /\ \A i \in 1..Len(db.customers) :
           CustomerPostInit(db.customers[i].email, db.customers[i].phone) = NoError
    /\ \A i \in 1..Len(db.products) : db.products[i].price >= 0
    /\ \A i \in 1..Len(db.order_items) : db.order_items[i].quantity > 0

\* C3: add_order for an order whose customer_id matches no customers row
\* fails with an integrity error, and no orders row and no order_items row
\* of it exists afterwards.
C3_MissingCustomerRejected ==
    [][(last'.op = "add_order" /\ last'.arg.customer_id \notin Ids(db.customers))
           => (raised' = "IntegrityError" /\ db' = db)]_vars

Emails(d) == {d.customers[i].email : i \in 1..Len(d.customers)}

Skus(d) == {d.products[i].sku : i \in 1..Len(d.products)}

Aware(dt) == dt.tz # <<>>

\* C7: a list-all read returns every stored row once: get_customers and
\* get_products in strictly decreasing order of id, get_orders in
\* non-increasing order of created_at, the order of the timestamps.
C7_ListAllNewestFirst ==
    /\ (last.op \in {"get_customers", "get_products"} /\ raised = NoError)
           => /\ Len(result) = Len(IF last.op = "get_customers" THEN db.customers
                                   ELSE db.products)
              /\ Range(result) = Range(IF last.op = "get_customers" THEN db.customers
                                       ELSE db.products)
              /\ \A i \in 1..(Len(result) - 1) : result[i].id > result[i + 1].id
    /\ (last.op = "get_orders" /\ raised = NoError)
           => /\ Len(result) = Len(db.orders)
              /\ {result[i].id : i \in 1..Len(result)} = Ids(db.orders)
              /\ \A i, j \in 1..Len(result) :
                     (i < j /\ Aware(result[i].created_at) = Aware(result[j].created_at))
                         => Instant(result[i].created_at) >= Instant(result[j].created_at)

\* C8: every storage operation releases the connection it acquired, however
\* it ends: none is open between two operations, and never more than one at
\* a time.
C8_ConnectionReleased == open_conns = 0 /\ peak_conns <= 1

\* An operation that raised: its connection was open during it and is not
\* open now.
C8_Witness ==
    /\ last.op \in {"add_customer", "add_order", "import_from_csv_json", "get_customers"}
    /\ raised # NoError
    /\ peak_conns = 1
    /\ open_conns = 0

\* C11: an order that add_order stored comes back from get_orders with the
\* items it was saved with, in the order they were added, whatever their
\* product ids.
C11_LineOrderKept ==
    (last.op = "add_order" /\ raised = NoError)
        => \E i \in 1..Len(get_orders(db).ret) :
               /\ get_orders(db).ret[i].id = result[1]
               /\ get_orders(db).ret[i].items = last.arg.items

\* the order_items rows that the items of an order make
ItemRows(order_id, items) ==
    [i \in 1..Len(items) |->
        [order_id |-> order_id, product_id |-> items[i].product_id,
         quantity |-> items[i].quantity, unit_price |-> items[i].unit_price]]

\* C12: add_order stores all of an order or nothing: an order with two items
\* of one product is refused with an integrity error; when add_order raises,
\* the store is as it was before the call; when it returns, the orders row
\* and one order_items row for each item, in their order, were added and
\* nothing else changed.
C12_AllOrNothing ==
    [][last'.op = "add_order" =>
          LET o == last'.arg
          IN  /\ (\E i, j \in 1..Len(o.items) :
                      i < j /\ o.items[i].product_id = o.items[j].product_id)
                     => raised' = "IntegrityError"
              /\ raised' # NoError => db' = db
              /\ raised' = NoError =>
                     /\ db'.orders = Append(db.orders,
                            [id |-> result'[1], customer_id |-> o.customer_id,
                             created_at |-> isoformat(o.created_at),
                             status |-> o.status])
                     /\ db'.order_items = db.order_items \o ItemRows(result'[1], o.items)
                     /\ db'.customers = db.customers
                     /\ db'.products = db.products]_vars

\* add_order was refused at the second item of an order, after the orders
\* row and the first item had been inserted, and an earlier order is stored.
C12_Witness ==
    /\ last.op = "add_order"
    /\ raised = "IntegrityError"
    /\ Len(last.arg.items) = 2
    /\ last.arg.items[1].product_id = last.arg.items[2].product_id
    /\ db.orders # <<>>

-----------------------------------------------------------------------------
(* Claims about the interactive shell *)

\* C9: a failure of one action of the shell stays with that action: no
\* exception leaves a handler, the application starts whenever it is started,
\* and adding a valid customer whose email no stored row has is answered
\* with the success message alone, whatever happened before.
C9_FailureConfined ==
    [][/\ raised' = NoError
       /\ last'.op = "App.__init__" => app' = "running"
       /\ (/\ last'.op = "App.add_customer"
           /\ CustomerPostInit(last'.arg.email, last'.arg.phone) = NoError
           /\ last'.arg.email \notin Emails(db))
          => shown' = <<"showinfo">>]_vars

\* C13: the tables are created before anything reads or writes them, on the
\* first run against a new store file too: no statement ever fails for a
\* table that does not exist, and once the application has been started the
\* store holds its four tables.
C13_SchemaBeforeQueries ==
    /\ raised # "OperationalError"
    /\ last.op = "App.__init__" => \A t \in Range(Tables) : HasTable(db, t)

-----------------------------------------------------------------------------
(* Claims about the bulk transfer *)

NonIdColumns(table) ==
    {Schema[table][k] : k \in 1..Len(Schema[table])} \ {"id"}

IsPrefix(a, b) == Len(a) <= Len(b) /\ SubSeq(b, 1, Len(a)) = a

\* C10: a table exported and then imported from its CSV or JSON file into an
\* empty table of the same shape has the same number of rows, equal row for
\* row in every column but the identifier; and an import into a table that
\* holds rows leaves those rows as they were.
C10_RoundTrip ==
    [][last'.op = "import_from_csv_json" =>
          LET t == last'.arg.table
          IN  /\ target[t] = <<>> =>
                     /\ Len(target'[t]) = Len(db[t])
                     /\ \A i \in 1..Len(db[t]) : \A c \in NonIdColumns(t) :
                            target'[t][i][c] = db[t][i][c]
              /\ \A u \in Range(Tables) : IsPrefix(target[u], target'[u])]_vars

====
